---- MODULE Spec2Model ----
(***************************************************************************)
(* PPTXchecker: the rule engine of src/rules.py as it is driven by         *)
(* main_controller of src/pptchecker.py.                                   *)
(*                                                                         *)
(* A deck (prs) is a record of the slide size and the sequence of slides.  *)
(* One action models one statement group of main_controller: building the  *)
(* feedback list, one call of each rule, the final loop and the hand-over  *)
(* to the renderer.  A Python exception ends the run (pc = "error").       *)
(*                                                                         *)
(* Text.  A Python string is modelled by the list of its space-separated   *)
(* pieces, str.split(' '), except that the empty string is the empty       *)
(* sequence.  "a b" is <<"a","b">>, " a" is <<"","a">>.  The texts of the  *)
(* model hold no white space other than the space, apart from the line     *)
(* break that joins the paragraphs of a shape.  The glyphs of the source   *)
(* are written in ASCII: "<#>" is the placeholder glyph, "(2)" the         *)
(* circled 2.  Times are in tenths of a second.                            *)
(***************************************************************************)
EXTENDS Integers, Sequences, FiniteSets, TLC

VARIABLES prs, prs0, config, pc, run, slide_feedback, start_slide_num,
          general_feedback, pass_all_checks, ret, estimate, err, display,
          out1

vars == <<prs, prs0, config, pc, run, slide_feedback, start_slide_num,
          general_feedback, pass_all_checks, ret, estimate, err, display,
          out1>>

\* ------------------------------------------------------------------ bounds

\* Longest deck of the families the runs start from.
MaxSlides == 3

\* Longest deck of the speaker-notes family.
MaxNoteSlides == 4

\* ------------------------------------------------------------- sequences

RECURSIVE SumSeq(_)
SumSeq(s) == IF s = <<>> THEN 0 ELSE Head(s) + SumSeq(Tail(s))

RECURSIVE FlattenSeq(_)
FlattenSeq(ss) == IF ss = <<>> THEN <<>> ELSE Head(ss) \o FlattenSeq(Tail(ss))

Abs(x) == IF x < 0 THEN -x ELSE x

\* All sequences over S of a length in lo..hi.
SeqsOf(S, lo, hi) == UNION {[1..n -> S] : n \in lo..hi}

\* ------------------------------------------------------------------ text

\* str.split(' '): the empty string splits into one empty piece.
SplitSpace(t) == IF t = <<>> THEN <<"">> ELSE t

\* str.split(): the pieces that are not empty.
SplitWords(t) == SelectSeq(t, LAMBDA w : w # "")

RECURSIVE StripLeft(_)
StripLeft(t) == IF t # <<>> /\ Head(t) = "" THEN StripLeft(Tail(t)) ELSE t

RECURSIVE StripRight(_)
StripRight(t) ==
    IF t # <<>> /\ t[Len(t)] = "" THEN StripRight(SubSeq(t, 1, Len(t) - 1))
    ELSE t

\* str.strip(): leading and trailing spaces removed.
Strip(t) == StripRight(StripLeft(t))

\* a + b on strings: the last piece of a and the first of b become one.
Concat(a, b) ==
    IF a = <<>> THEN b
    ELSE IF b = <<>> THEN a
    ELSE SubSeq(a, 1, Len(a) - 1) \o <<a[Len(a)] \o b[1]>> \o Tail(b)

\* str.lower() on a piece, for the pieces the model's titles are made of.
LowerWord(w) ==
    CASE w = "Summary" -> "summary"
      [] w = "Backup"  -> "backup"
      [] w = "Agenda"  -> "agenda"
      [] OTHER         -> w

Lower(t) == [i \in 1..Len(t) |-> LowerWord(t[i])]

\* "summary" in piece / "backup" in piece, for the pieces of the model.
WordHas(w, sub) ==
    CASE sub = "summary" -> w \in {"summary", "summary-backup"}
      [] sub = "backup"  -> w \in {"backup", "summary-backup"}
      [] sub = ":"       -> w \in {"note:"}
      [] sub = "-"       -> w \in {"summary-backup", "e-mail"}
      [] OTHER           -> FALSE

\* sub in text, for a sub that holds no space.
Contains(t, sub) == \E i \in 1..Len(t) : WordHas(t[i], sub)

\* text.endswith('?') and text.startswith('*').
EndsWithQ(t) == t # <<>> /\ t[Len(t)] \in {"why?", "?"}
StartsWithStar(t) == t # <<>> /\ t[1] \in {"*", "*note"}

\* ----------------------------------------------------------------- deck

NoTitle == [present |-> FALSE, text |-> <<>>]
Title(t) == [present |-> TRUE, text |-> t]

\* slide.shapes.title is falsy when the slide has no title placeholder.
HasTitle(slide) == slide.title.present

\* util.is_backup_slide: the slide has a title that contains "backup",
\* whatever the case of its letters.
is_backup_slide(slide) ==
    HasTitle(slide) /\ Contains(Lower(slide.title.text), "backup")

NumSlides(p) == Len(p.slides)

\* ---------------------------------------------------------------- shapes

\* paragraph.text: the texts of its runs, one after the other.
RECURSIVE ParagraphText(_)
ParagraphText(runs) ==
    IF runs = <<>> THEN <<>>
    ELSE Concat(Head(runs).text, ParagraphText(Tail(runs)))

\* shape.text: the paragraphs' texts joined by "\n".  The line break is kept
\* as a piece of its own; the rules count the pieces of one-paragraph texts
\* and of runs only.
RECURSIVE JoinParagraphs(_)
JoinParagraphs(ps) ==
    IF ps = <<>> THEN <<>>
    ELSE IF Len(ps) = 1 THEN ParagraphText(ps[1])
    ELSE ParagraphText(ps[1]) \o <<"\n">> \o JoinParagraphs(Tail(ps))

ShapeText(shape) == JoinParagraphs(shape.paragraphs)

\* Every run of a shape, paragraph after paragraph.
ShapeRuns(shape) == FlattenSeq(shape.paragraphs)

\* -------------------------------------------------------------- feedback

\* One finding: a line of a slide's feedback string with the text that ends it.
Line(rule, what, text) ==
    [rule |-> rule, what |-> what, text |-> text, end |-> "\n"]

\* slide_feedback[slide_num - 1] += comment.  st carries fb and err; an index
\* outside the list raises IndexError.
AddFeedback(st, slide_num, comment) ==
    IF st.err # "" THEN st
    ELSE IF slide_num \in 1..Len(st.fb)
         THEN [st EXCEPT !.fb[slide_num] = Append(@, comment)]
         ELSE [st EXCEPT !.err = "IndexError"]

\* ---------------------------------------------------------- summary slide

\* The scan without its failure on a later title that is not a summary.
RECURSIVE SummaryFromAnywhere(_, _, _)
SummaryFromAnywhere(p, i, summary_at_end) ==
    IF i > NumSlides(p) THEN summary_at_end
    ELSE LET slide == p.slides[i]
             title == Lower(slide.title.text)
         IN  IF ~HasTitle(slide) THEN SummaryFromAnywhere(p, i + 1, summary_at_end)
             ELSE IF Contains(title, "summary") THEN SummaryFromAnywhere(p, i + 1, TRUE)
             ELSE IF Contains(title, "backup") THEN summary_at_end
             ELSE SummaryFromAnywhere(p, i + 1, summary_at_end)

RECURSIVE SummaryFrom(_, _, _)
SummaryFrom(p, i, summary_at_end) ==
    IF i > NumSlides(p) THEN summary_at_end
    ELSE LET slide == p.slides[i]
             title == Lower(slide.title.text)
         IN  IF ~HasTitle(slide) THEN SummaryFrom(p, i + 1, summary_at_end)
             ELSE IF Contains(title, "summary") THEN SummaryFrom(p, i + 1, TRUE)
             ELSE IF Contains(title, "backup") THEN summary_at_end
             ELSE IF summary_at_end THEN FALSE
             ELSE SummaryFrom(p, i + 1, summary_at_end)

must_end_with_summary_slide(p) == SummaryFrom(p, 1, FALSE)

\* ---------------------------------------------------------- slide numbers

\* The circled digits for which str.isdigit() holds, as the digit they become.
CircledValue(w) ==
    CASE w = "(1)" -> "1" [] w = "(2)" -> "2" [] w = "(3)" -> "3"
      [] w = "(4)" -> "4" [] w = "(5)" -> "5" [] w = "(6)" -> "6"
      [] w = "(7)" -> "7" [] w = "(8)" -> "8" [] w = "(9)" -> "9"
      [] OTHER -> w

DigitWords == {"1", "2", "3", "4", "5", "6", "7", "8", "9"}
CircledDigitWords == {"(1)", "(2)", "(3)", "(4)", "(5)", "(6)", "(7)", "(8)", "(9)"}

\* str.isdigit(): one piece, all of it digits.  The circled ten to twenty
\* of the source's table are no digits to Python.
IsDigit(t) == Len(t) = 1 /\ t[1] \in DigitWords \cup CircledDigitWords

\* int(text) for a plain digit.
IntOf(w) ==
    CASE w = "1" -> 1 [] w = "2" -> 2 [] w = "3" -> 3 [] w = "4" -> 4
      [] w = "5" -> 5 [] w = "6" -> 6 [] w = "7" -> 7 [] w = "8" -> 8
      [] w = "9" -> 9 [] OTHER -> 0

NormaliseCircled(t) ==
    IF IsDigit(t) /\ t[1] \in CircledDigitWords THEN <<CircledValue(t[1])>> ELSE t

IsSlideNumberText(t, slide_num) ==
    LET shape_text == NormaliseCircled(Strip(t))
    IN  \/ IsDigit(shape_text) /\ IntOf(shape_text[1]) = slide_num
        \/ shape_text = <<"<#>">>

\* top > slide_height * 0.9 or top < slide_height * 0.1
InNumberBand(top, slide_height) ==
    10 * top > 9 * slide_height \/ 10 * top < slide_height

\* The band test of the source reads shape_top, the remembered position.
NumberBandTop(st, shape) == st.shape_top

\* The test that no position is remembered yet.
NoCanonicalYet(st) == st.shape_left = 0 /\ st.shape_top = 0

NumberShape(p, st, slide_num, shape) ==
    IF st.err # "" \/ ~shape.has_text_frame \/ Len(shape.paragraphs) # 1 THEN st
    ELSE IF ~IsSlideNumberText(ShapeText(shape), slide_num) THEN st
    ELSE IF ~InNumberBand(NumberBandTop(st, shape), p.slide_height) THEN st
    ELSE LET s1 == [st EXCEPT !.slide_has = TRUE, !.has = TRUE]
         IN  IF NoCanonicalYet(s1)
             THEN [s1 EXCEPT !.shape_left = shape.left, !.shape_top = shape.top]
             ELSE IF s1.shape_left # shape.left \/ s1.shape_top # shape.top
                  THEN AddFeedback(s1, slide_num, Line("numbers", "misplaced", <<>>))
                  ELSE s1

RECURSIVE NumberShapes(_, _, _, _)
NumberShapes(p, st, slide_num, shapes) ==
    IF shapes = <<>> THEN st
    ELSE NumberShapes(p, NumberShape(p, st, slide_num, Head(shapes)),
                      slide_num, Tail(shapes))

RECURSIVE NumberSlides(_, _, _)
NumberSlides(p, st, slide_num) ==
    IF st.err # "" \/ slide_num > NumSlides(p) THEN st
    ELSE IF is_backup_slide(p.slides[slide_num]) THEN st
    ELSE LET s1 == NumberShapes(p, [st EXCEPT !.slide_has = FALSE], slide_num,
                                p.slides[slide_num].shapes)
             s2 == IF s1.has /\ ~s1.slide_has
                   THEN AddFeedback(s1, slide_num, Line("numbers", "missing", <<>>))
                   ELSE s1
         IN  NumberSlides(p, s2, slide_num + 1)

\* Returns [ret, fb, err].
should_have_slide_numbers(p, fb) ==
    LET st0 == [has |-> FALSE, slide_has |-> FALSE, shape_left |-> 0,
                shape_top |-> 0, fb |-> fb, err |-> ""]
        st  == IF NumSlides(p) < 2 THEN st0 ELSE NumberSlides(p, st0, 2)
    IN  [ret |-> IF NumSlides(p) < 2 THEN TRUE ELSE st.has,
         fb |-> st.fb, err |-> st.err]

\* ------------------------------------------------------ slide transitions

\* util.within_bounds, as the rule uses it: the position moved by more than
\* the tolerated fraction of the slide's width or height.
within_bounds(prev_pos, curr_pos, threshold, slide_width, slide_height) ==
    \/ 100 * Abs(curr_pos[1] - prev_pos[1]) > threshold * slide_width
    \/ 100 * Abs(curr_pos[2] - prev_pos[2]) > threshold * slide_height

HasKey(d, k) == \E i \in 1..Len(d) : d[i].key = k
Lookup(d, k) == d[CHOOSE i \in 1..Len(d) : d[i].key = k]

RECURSIVE FreshIndex(_, _, _)
FreshIndex(d, shape, shape_index) ==
    IF HasKey(d, <<shape.shape_type, shape.width, shape.height, shape_index>>)
    THEN FreshIndex(d, shape, shape_index + 1)
    ELSE shape_index

\* str(shape.auto_shape_type) for an auto shape, str(shape.shape_type) otherwise.
Descriptor(shape) ==
    IF shape.shape_type = "AUTO_SHAPE" THEN shape.auto_shape_type
    ELSE shape.shape_type

\* The attribute list: the descriptor, then the text when there is one.
ShapeAttr(shape) ==
    IF shape.has_text_frame /\ ShapeText(shape) # <<>>
    THEN [len |-> 2, desc |-> Descriptor(shape), text |-> ShapeText(shape)]
    ELSE [len |-> 1, desc |-> Descriptor(shape), text |-> <<>>]

\* shapes_curr and shapes_attr_curr of one slide, in insertion order.
RECURSIVE Fingerprints(_, _)
Fingerprints(shapes, d) ==
    IF shapes = <<>> THEN d
    ELSE LET shape == Head(shapes)
             idx == FreshIndex(d, shape, 0)
         IN  Fingerprints(Tail(shapes),
                 Append(d, [key |-> <<shape.shape_type, shape.width,
                                      shape.height, idx>>,
                            pos |-> <<shape.left, shape.top>>,
                            attr |-> ShapeAttr(shape)]))

\* The first loop: unchanged shapes leave shapes_prev.
Unchanged(e, curr) ==
    /\ HasKey(curr, e.key)
    /\ Lookup(curr, e.key).pos = e.pos
    /\ Lookup(curr, e.key).attr.len = e.attr.len

\* The test with the descriptor compared and the positions forgotten.
NotSmoothByDescriptor(p, cfg, e, curr) ==
    HasKey(curr, e.key) /\ Lookup(curr, e.key).attr.desc = e.attr.desc

\* The test of the second loop on one entry of shapes_prev.
NotSmooth(p, cfg, e, curr) ==
    /\ HasKey(curr, e.key)
    /\ LET c == Lookup(curr, e.key)
       IN  /\ c.attr.len = e.attr.len
           /\ e.pos # c.pos
           /\ within_bounds(e.pos, c.pos, cfg.shape_pos_threshold,
                            p.slide_width, p.slide_height)
           /\ e.attr = c.attr

TransitionComment(attr) ==
    IF attr.len > 1
    THEN IF attr.text = <<"<#>">>
         THEN Line("transition", "slide number", <<>>)
         ELSE Line("transition", attr.desc, attr.text)
    ELSE Line("transition", attr.desc, <<>>)

\* The finding written to the entry of the earlier slide of the pair.
TransitionTargetEarlier(slide_num) == slide_num - 1

\* The slide whose feedback entry takes the finding of a transition.
TransitionTarget(slide_num) == slide_num

RECURSIVE CompareShapes(_, _, _, _, _, _)
CompareShapes(p, cfg, st, slide_num, prev, curr) ==
    IF prev = <<>> THEN st
    ELSE LET e == Head(prev)
             s1 == IF NotSmooth(p, cfg, e, curr)
                   THEN AddFeedback([st EXCEPT !.smooth = FALSE],
                                    TransitionTarget(slide_num),
                                    TransitionComment(Lookup(curr, e.key).attr))
                   ELSE st
         IN  CompareShapes(p, cfg, s1, slide_num, Tail(prev), curr)

RECURSIVE TransitionSlides(_, _, _, _, _)
TransitionSlides(p, cfg, st, slide_num, shapes_prev) ==
    IF st.err # "" \/ slide_num > NumSlides(p) THEN st
    ELSE IF is_backup_slide(p.slides[slide_num]) THEN st
    ELSE LET curr == Fingerprints(p.slides[slide_num].shapes, <<>>)
             kept == SelectSeq(shapes_prev, LAMBDA e : ~Unchanged(e, curr))
             s1 == IF shapes_prev # <<>> /\ curr # <<>>
                   THEN CompareShapes(p, cfg, st, slide_num, kept, curr)
                   ELSE st
         IN  TransitionSlides(p, cfg, s1, slide_num + 1, curr)

\* Returns [ret, fb, err].
has_smooth_slide_transitions(p, cfg, fb) ==
    LET st0 == [smooth |-> TRUE, fb |-> fb, err |-> ""]
        st  == IF NumSlides(p) < 2 THEN st0
               ELSE TransitionSlides(p, cfg, st0, 1, <<>>)
    IN  [ret |-> st.smooth, fb |-> st.fb, err |-> st.err]

\* ---------------------------------------------------------------- colours

\* A colour reference: an explicit RGB, a theme role with a brightness in
\* percent, or nothing at all.
RGBColor(rgb) == [type |-> "RGB", rgb |-> rgb, theme_color |-> "NONE", brightness |-> 0]
SchemeColor(role, b) ==
    [type |-> "SCHEME", rgb |-> <<0, 0, 0>>, theme_color |-> role, brightness |-> b]
NoColor == [type |-> "NONE", rgb |-> <<0, 0, 0>>, theme_color |-> "NONE", brightness |-> 0]

Black == <<0, 0, 0>>
White == <<255, 255, 255>>
Grey  == <<128, 128, 128>>

\* util.get_color_scheme: the theme's roles and their RGB.
get_color_scheme(p) == p.color_scheme

\* One channel lightened towards 255 or darkened towards 0.
AdjustChannel(c, brightness) ==
    IF brightness > 0 THEN c + ((255 - c) * brightness) \div 100
    ELSE IF brightness < 0 THEN (c * (100 + brightness)) \div 100
    ELSE c

\* util.get_scheme_color_rgb: the role's base colour, lightened or darkened.
get_scheme_color_rgb(color_scheme, theme_color, brightness) ==
    LET base == color_scheme[theme_color]
    IN  <<AdjustChannel(base[1], brightness), AdjustChannel(base[2], brightness),
          AdjustChannel(base[3], brightness)>>

\* The gamma-corrected value of a channel, times 10000, for the channel
\* values the model's colours reach.
ChannelLinear(c) ==
    CASE c = 0 -> 0 [] c = 64 -> 513 [] c = 127 -> 2122 [] c = 128 -> 2159
      [] c = 191 -> 5210 [] c = 255 -> 10000 [] OTHER -> 0

\* Relative luminance, times 10000.
Luminance(rgb) ==
    (2126 * ChannelLinear(rgb[1]) + 7152 * ChannelLinear(rgb[2])
        + 722 * ChannelLinear(rgb[3])) \div 10000

\* util.calculate_contrast_ratio: (L_lighter + 0.05) / (L_darker + 0.05),
\* kept as the fraction num / den.
calculate_contrast_ratio(c1, c2) ==
    LET l1 == Luminance(c1)
        l2 == Luminance(c2)
    IN  [num |-> (IF l1 > l2 THEN l1 ELSE l2) + 500,
         den |-> (IF l1 > l2 THEN l2 ELSE l1) + 500]

\* ratio < minimum, the minimum in tenths.
RatioBelow(ratio, min_tenths) == 10 * ratio.num < min_tenths * ratio.den

\* ratio == 1
RatioIsOne(ratio) == ratio.num = ratio.den

\* --------------------------------------------------------------- contrast

\* The colour of a fill or font: its RGB, or its theme role resolved.
ResolveColor(color_scheme, color) ==
    IF color.type = "RGB" THEN color.rgb
    ELSE get_scheme_color_rgb(color_scheme, color.theme_color, color.brightness)

\* The reference of a font that has no colour type, as the rule leaves it.
DefaultFontColor(color) == SchemeColor("DARK_1", 0)

\* The shape fill test of the rule.
ShapeContrastFails(cfg, ratio) ==
    RatioBelow(ratio, cfg.shape_min_color_contrast_ratio) /\ ~RatioIsOne(ratio)

\* The font test of the rule.
FontContrastFails(cfg, ratio, at_least_one_font_visible) ==
    RatioBelow(ratio, cfg.font_min_color_contrast_ratio)
        /\ ~at_least_one_font_visible

IsRectangle(shape) ==
    shape.shape_type = "AUTO_SHAPE"
        /\ shape.auto_shape_type \in {"RECTANGLE", "ROUNDED_RECTANGLE"}

\* The font size test of the rule, sizes in points; no size is 0.
FontTooSmall(cfg, r) ==
    /\ r.size # 0
    /\ \/ /\ r.size < cfg.min_size_font
          /\ Len(SplitWords(r.text)) > 2
          /\ ~StartsWithStar(r.text)
       \/ r.size < cfg.min_size_font - 6

\* One run of a shape's text frame.  st holds the rule's locals, the deck p
\* among them: a font without colour type is given the dark text role.
ContrastRun(cfg, st, i, j, k, r) ==
    IF st.err # "" THEN st
    ELSE
    LET shape == st.p.slides[i].shapes[j]
        rn == shape.paragraphs[k][r]
        s1 == IF FontTooSmall(cfg, rn)
              THEN [AddFeedback(st, i, Line("font size", Descriptor(shape), rn.text))
                       EXCEPT !.result = FALSE]
              ELSE st
    IN  IF s1.err # "" \/ rn.text = <<>> THEN s1
        ELSE
        LET s2 == IF rn.color.type # "RGB" /\ rn.color.type = "NONE"
                  THEN [s1 EXCEPT !.p.slides[i].shapes[j].paragraphs[k][r].color =
                                      DefaultFontColor(@)]
                  ELSE s1
            font_color_rgb ==
                ResolveColor(get_color_scheme(s2.p),
                             s2.p.slides[i].shapes[j].paragraphs[k][r].color)
            ratio == calculate_contrast_ratio(s2.check, font_color_rgb)
        IN  IF FontContrastFails(cfg, ratio, s2.visible)
            THEN [s2 EXCEPT !.temp =
                     Append(@, Line("font colour", Descriptor(shape), rn.text))]
            ELSE [s2 EXCEPT !.visible = TRUE]

RECURSIVE ContrastRuns(_, _, _, _, _, _)
ContrastRuns(cfg, st, i, j, k, r) ==
    LET ps == st.p.slides[i].shapes[j].paragraphs
    IN  IF k > Len(ps) THEN st
        ELSE IF r > Len(ps[k]) THEN ContrastRuns(cfg, st, i, j, k + 1, 1)
        ELSE ContrastRuns(cfg, ContrastRun(cfg, st, i, j, k, r), i, j, k, r + 1)

\* One shape of a slide.  For a line, fill is the fill of shape.line.
ContrastShape(cfg, st, i, j) ==
    LET shape == st.p.slides[i].shapes[j]
    IN
    IF st.err # "" \/ shape.shape_type \in {"PICTURE", "CHART", "TABLE"} THEN st
    ELSE
    LET s1 == IF shape.shape_type = "LINE" /\ shape.line_width < cfg.min_line_width
              THEN [AddFeedback(st, i, Line("line width", "LINE", <<>>))
                       EXCEPT !.result = FALSE]
              ELSE st
    IN
    IF s1.err # "" \/ ~shape.has_fill THEN s1
    ELSE IF ~s1.bg.bound THEN [s1 EXCEPT !.err = "UnboundLocalError"]
    ELSE
    LET color_rgb == ResolveColor(get_color_scheme(s1.p), shape.fill.color)
        ratio == calculate_contrast_ratio(s1.bg.rgb, color_rgb)
        s2 == IF shape.fill.type = "SOLID" /\ ShapeContrastFails(cfg, ratio)
                    /\ ~IsRectangle(shape)
              THEN [AddFeedback(s1, i, Line("shape colour", Descriptor(shape), <<>>))
                       EXCEPT !.result = FALSE]
              ELSE s1
        s3 == [s2 EXCEPT !.check = IF shape.fill.type = "SOLID" THEN color_rgb
                                   ELSE s1.bg.rgb,
                         !.visible = FALSE, !.temp = <<>>]
        s4 == IF s3.err = "" /\ shape.shape_type # "LINE" /\ shape.has_text_frame
              THEN ContrastRuns(cfg, s3, i, j, 1, 1)
              ELSE s3
    IN  IF s4.err = "" /\ ~s4.visible /\ s4.temp # <<>>
        THEN IF i \in 1..Len(s4.fb)
             THEN [s4 EXCEPT !.fb[i] = @ \o s4.temp, !.result = FALSE]
             ELSE [s4 EXCEPT !.err = "IndexError"]
        ELSE s4

RECURSIVE ContrastShapes(_, _, _, _)
ContrastShapes(cfg, st, i, j) ==
    IF j > Len(st.p.slides[i].shapes) THEN st
    ELSE ContrastShapes(cfg, ContrastShape(cfg, st, i, j), i, j + 1)

\* slide_background_color after the two tests on the slide's background: a
\* slide without solid background sets white; fore_color never equals the
\* colour type it is compared with, so a solid background sets nothing.
SlideBackground(bg, slide) ==
    IF slide.background.type # "SOLID" THEN [bound |-> TRUE, rgb |-> White]
    ELSE bg

RECURSIVE ContrastSlides(_, _, _)
ContrastSlides(cfg, st, i) ==
    IF st.err # "" \/ i > NumSlides(st.p) THEN st
    ELSE IF is_backup_slide(st.p.slides[i]) THEN st
    ELSE LET s1 == [st EXCEPT !.bg = SlideBackground(@, st.p.slides[i])]
         IN  ContrastSlides(cfg, ContrastShapes(cfg, s1, i, 1), i + 1)

\* Returns [ret, fb, err, p]: p is the deck as the rule leaves it.
should_have_high_contrast_fonts_colours(p, cfg, fb) ==
    LET st0 == [result |-> TRUE, fb |-> fb, err |-> "", p |-> p,
                bg |-> [bound |-> FALSE, rgb |-> White],
                check |-> White, visible |-> FALSE, temp |-> <<>>]
        st  == ContrastSlides(cfg, st0, 1)
    IN  [ret |-> st.result, fb |-> st.fb, err |-> st.err, p |-> st.p]

\* --------------------------------------------------------- excessive text

\* slide_text += run.text.strip() + " ", for every counted run of the slide.
RECURSIVE SlideText(_, _, _)
SlideText(slide, runs, slide_text) ==
    IF runs = <<>> THEN slide_text
    ELSE LET rn == Head(runs)
             skip == \/ Len(SplitSpace(rn.text)) <= 2
                     \/ HasTitle(slide) /\ Strip(rn.text) = Strip(slide.title.text)
         IN  SlideText(slide, Tail(runs),
                 IF skip THEN slide_text
                 ELSE Concat(Concat(slide_text, Strip(rn.text)), <<"", "">>))

\* The runs of the shapes that have a text frame, in slide order.
RECURSIVE TextRuns(_)
TextRuns(shapes) ==
    IF shapes = <<>> THEN <<>>
    ELSE (IF Head(shapes).has_text_frame THEN ShapeRuns(Head(shapes)) ELSE <<>>)
             \o TextRuns(Tail(shapes))

\* word_count of a slide.
WordCount(slide) ==
    Len(SplitSpace(SlideText(slide, TextRuns(slide.shapes), <<>>)))

RECURSIVE ExcessiveSlides(_, _, _, _)
ExcessiveSlides(p, cfg, st, slide_num) ==
    IF st.err # "" \/ slide_num > NumSlides(p) THEN st
    ELSE LET s1 == IF WordCount(p.slides[slide_num]) > cfg.max_num_words_per_slide
                   THEN [AddFeedback(st, slide_num, Line("excessive text", "", <<>>))
                            EXCEPT !.has_excessive_text = TRUE]
                   ELSE st
         IN  ExcessiveSlides(p, cfg, s1, slide_num + 1)

\* Returns [ret, fb, err].
should_not_have_excessive_text(p, cfg, fb) ==
    LET st == ExcessiveSlides(p, cfg,
                  [has_excessive_text |-> FALSE, fb |-> fb, err |-> ""], 1)
    IN  [ret |-> ~st.has_excessive_text, fb |-> st.fb, err |-> st.err]

\* ------------------------------------------------------ complete sentences

SubjectWords == {"we", "it"}
VerbWords == {"is", "show"}

\* util.convert_string_into_word_tokens, identify_parts_of_speech and
\* is_full_sentence: a subject-like word followed by a finite verb.
is_full_sentence(t) ==
    \E i \in 1..Len(t) : \E j \in (i + 1)..Len(t) :
        t[i] \in SubjectWords /\ t[j] \in VerbWords

\* The runs the classifier is asked about.
SentenceCandidate(slide, rn) ==
    LET title == IF HasTitle(slide) THEN Lower(slide.title.text) ELSE <<>>
        shape_text == Strip(rn.text)
    IN  /\ shape_text # <<>>
        /\ Strip(shape_text) # Strip(title)
        /\ Len(SplitSpace(shape_text)) > 4
        /\ ~EndsWithQ(shape_text)
        /\ ~Contains(shape_text, ":")
        /\ ~Contains(shape_text, "-")

RECURSIVE SentenceRuns(_, _, _, _)
SentenceRuns(slide, st, slide_num, runs) ==
    IF st.err # "" \/ runs = <<>> THEN st
    ELSE LET rn == Head(runs)
             s1 == IF SentenceCandidate(slide, rn) /\ is_full_sentence(Strip(rn.text))
                   THEN [AddFeedback(st, slide_num, Line("full sentence", "", rn.text))
                            EXCEPT !.result = FALSE]
                   ELSE st
         IN  SentenceRuns(slide, s1, slide_num, Tail(runs))

RECURSIVE SentenceSlides(_, _, _)
SentenceSlides(p, st, slide_num) ==
    IF st.err # "" \/ slide_num > NumSlides(p) THEN st
    ELSE SentenceSlides(p,
             SentenceRuns(p.slides[slide_num], st, slide_num,
                          TextRuns(p.slides[slide_num].shapes)),
             slide_num + 1)

\* Returns [ret, fb, err].
does_not_have_complete_sentences(p, fb) ==
    LET st == SentenceSlides(p, [result |-> TRUE, fb |-> fb, err |-> ""], 1)
    IN  [ret |-> st.result, fb |-> st.fb, err |-> st.err]

\* ------------------------------------------------------------------ timing

\* util.get_slide_notes: the notes text and the number of break markers.
get_slide_notes(slide) == slide.notes

\* Occurrences of '.', '?' and '!' in a piece, and the piece without them.
PunctCount(w) ==
    CASE w \in {"world.", "why?", "Hi!", "."} -> 1
      [] w \in {"end..."} -> 3
      [] OTHER -> 0

RemovePunct(w) ==
    CASE w = "world." -> "world" [] w = "why?" -> "why" [] w = "Hi!" -> "Hi"
      [] w = "." -> "" [] w = "end..." -> "end" [] OTHER -> w

PunctPauses(t) == SumSeq([i \in 1..Len(t) |-> PunctCount(t[i])])
WithoutPunct(t) == [i \in 1..Len(t) |-> RemovePunct(t[i])]

\* time.strftime('%H:%M:%S', time.gmtime(t)) and ('%M:%S', ...).
FormatHMS(t) ==
    LET secs == t \div 10
    IN  <<(secs \div 3600) % 24, (secs \div 60) % 60, secs % 60>>

FormatMS(t) ==
    LET secs == t \div 10
    IN  <<(secs \div 60) % 60, secs % 60>>

\* time_per_slide of one slide.
TimePerSlide(cfg, slide) ==
    LET notes == get_slide_notes(slide)
    IN  notes.breaks * cfg.seconds_per_break
          + PunctPauses(notes.text) * cfg.seconds_per_pause
          + Len(SplitSpace(Strip(WithoutPunct(notes.text)))) * cfg.seconds_per_word

NoEstimate == [none |-> TRUE, total |-> <<0, 0, 0>>, slide_times |-> <<>>,
               cumul_slide_times |-> <<>>]

\* The number of note-less slides beyond which no estimate is made.
MaxSlidesWithoutNotes == 2

\* The estimate without its stop at the backup slide.
EstimateNeverStops(slide) == FALSE

\* The slide at which the estimate stops.
EstimateStopsAt(slide) ==
    HasTitle(slide) /\ Contains(Lower(slide.title.text), "backup")

RECURSIVE EstimateSlides(_, _, _, _)
EstimateSlides(p, cfg, st, i) ==
    IF i > NumSlides(p)
    THEN [none |-> FALSE, total |-> FormatHMS(st.total_prs_time),
          slide_times |-> st.slide_times,
          cumul_slide_times |-> st.cumul_slide_times]
    ELSE
    LET slide == p.slides[i]
        without == st.slides_without_notes
                     + (IF get_slide_notes(slide).text = <<>> THEN 1 ELSE 0)
        t == TimePerSlide(cfg, slide)
    IN  IF without > MaxSlidesWithoutNotes THEN NoEstimate
        ELSE IF EstimateStopsAt(slide)
        THEN [none |-> FALSE, total |-> FormatHMS(st.total_prs_time),
              slide_times |-> st.slide_times,
              cumul_slide_times |-> st.cumul_slide_times]
        ELSE EstimateSlides(p, cfg,
                 [slides_without_notes |-> without,
                  total_prs_time |-> st.total_prs_time + t + cfg.seconds_between_slides,
                  slide_times |-> Append(st.slide_times, FormatMS(t)),
                  cumul_slide_times |->
                      Append(st.cumul_slide_times, FormatHMS(st.total_prs_time))],
                 i + 1)

estimate_presentation_length(p, cfg) ==
    EstimateSlides(p, cfg,
        [slides_without_notes |-> 0, total_prs_time |-> 0, slide_times |-> <<>>,
         cumul_slide_times |-> <<>>], 1)

\* -------------------------------------------------------- main_controller

\* The loop with the entry appended before the test for a backup slide.
RECURSIVE BuildFeedbackAppendFirst(_, _, _)
BuildFeedbackAppendFirst(p, i, fb) ==
    IF i > NumSlides(p) THEN fb
    ELSE IF is_backup_slide(p.slides[i]) THEN Append(fb, <<>>)
    ELSE BuildFeedbackAppendFirst(p, i + 1, Append(fb, <<>>))

\* The first loop of main_controller: one empty entry per slide, up to the
\* first backup slide.
RECURSIVE BuildFeedback(_, _, _)
BuildFeedback(p, i, fb) ==
    IF i > NumSlides(p) THEN fb
    ELSE IF is_backup_slide(p.slides[i]) THEN fb
    ELSE BuildFeedback(p, i + 1, Append(fb, <<>>))

\* The list of the run before kept instead of a fresh one.
InitialFeedbackKept(p, previous) == BuildFeedback(p, 1, previous)

\* slide_feedback = [] and the loop; previous is the list of the run before.
InitialFeedback(p, previous) == BuildFeedback(p, 1, <<>>)

\* start_slide_num is bound by the first round of the loop; -1 is unbound.
StartSlideNum(p) == IF NumSlides(p) = 0 THEN -1 ELSE 0

\* feedback.replace('\n', '<br>') on one line of an entry.
ReplaceNewlines(line) ==
    [line EXCEPT !.end = "<br>",
                 !.text = [i \in 1..Len(@) |-> IF @[i] = "\n" THEN "<br>" ELSE @[i]]]

HtmlEntry(feedback) == [i \in 1..Len(feedback) |-> ReplaceNewlines(feedback[i])]

\* The last loop of main_controller over slide_feedback.
FinalFeedback(fb) == [i \in 1..Len(fb) |-> HtmlEntry(fb[i])]

\* pass_all_checks after the last loop.
PassAllChecks(fb) == \A i \in 1..Len(fb) : fb[i] = <<>>

NoReturns ==
    [summary |-> TRUE, numbers |-> TRUE, transitions |-> TRUE,
     contrast |-> TRUE, text |-> TRUE, sentences |-> TRUE]

NotShown ==
    [shown |-> FALSE, time_estimate |-> NoEstimate, start_slide_num |-> -1,
     slide_feedback |-> <<>>, general_feedback |-> <<>>,
     pass_all_checks |-> TRUE]

\* general_feedback += message when the rule was not satisfied.
General(gf, satisfied, message) == IF satisfied THEN gf ELSE Append(gf, message)

Build ==
    /\ pc = "build"
    /\ slide_feedback' = InitialFeedback(prs, slide_feedback)
    /\ start_slide_num' = StartSlideNum(prs)
    /\ general_feedback' = <<>>
    /\ pass_all_checks' = TRUE
    /\ pc' = "summary"
    /\ UNCHANGED <<prs, prs0, config, run, ret, estimate, err, display, out1>>

Summary ==
    /\ pc = "summary"
    /\ LET satisfied == must_end_with_summary_slide(prs)
       IN  /\ ret' = [ret EXCEPT !.summary = satisfied]
           /\ general_feedback' = General(general_feedback, satisfied, "summary")
    /\ pc' = "numbers"
    /\ UNCHANGED <<prs, prs0, config, run, slide_feedback, start_slide_num,
                   pass_all_checks, estimate, err, display, out1>>

\* A rule call that writes per-slide feedback: r is what the rule returned.
AfterRule(r, field, message, next) ==
    /\ slide_feedback' = r.fb
    /\ err' = r.err
    /\ IF r.err # ""
       THEN /\ pc' = "error"
            /\ UNCHANGED <<ret, general_feedback>>
       ELSE /\ pc' = next
            /\ ret' = [ret EXCEPT ![field] = r.ret]
            /\ general_feedback' = General(general_feedback, r.ret, message)

Numbers ==
    /\ pc = "numbers"
    /\ AfterRule(should_have_slide_numbers(prs, slide_feedback),
                 "numbers", "slide numbers", "transitions")
    /\ UNCHANGED <<prs, prs0, config, run, start_slide_num, pass_all_checks,
                   estimate, display, out1>>

Transitions ==
    /\ pc = "transitions"
    /\ AfterRule(has_smooth_slide_transitions(prs, config, slide_feedback),
                 "transitions", "transitions", "contrast")
    /\ UNCHANGED <<prs, prs0, config, run, start_slide_num, pass_all_checks,
                   estimate, display, out1>>

Contrast ==
    /\ pc = "contrast"
    /\ LET r == should_have_high_contrast_fonts_colours(prs, config, slide_feedback)
       IN  /\ AfterRule(r, "contrast", "colours and fonts", "text")
           /\ prs' = r.p
    /\ UNCHANGED <<prs0, config, run, start_slide_num, pass_all_checks,
                   estimate, display, out1>>

ExcessiveText ==
    /\ pc = "text"
    /\ AfterRule(should_not_have_excessive_text(prs, config, slide_feedback),
                 "text", "too much text", "sentences")
    /\ UNCHANGED <<prs, prs0, config, run, start_slide_num, pass_all_checks,
                   estimate, display, out1>>

\* The value of the sentence rule is dropped by main_controller.
Sentences ==
    /\ pc = "sentences"
    /\ LET r == does_not_have_complete_sentences(prs, slide_feedback)
       IN  /\ slide_feedback' = r.fb
           /\ err' = r.err
           /\ pc' = IF r.err # "" THEN "error" ELSE "estimate"
           /\ ret' = IF r.err # "" THEN ret ELSE [ret EXCEPT !.sentences = r.ret]
    /\ UNCHANGED <<prs, prs0, config, run, start_slide_num, general_feedback,
                   pass_all_checks, estimate, display, out1>>

Estimate ==
    /\ pc = "estimate"
    /\ estimate' = estimate_presentation_length(prs, config)
    /\ pc' = "finalize"
    /\ UNCHANGED <<prs, prs0, config, run, slide_feedback, start_slide_num,
                   general_feedback, pass_all_checks, ret, err, display, out1>>

\* The last loop, display_info and the call of the renderer.  With no slide
\* at all start_slide_num was never bound and reading it raises.
Finalize ==
    /\ pc = "finalize"
    /\ slide_feedback' = FinalFeedback(slide_feedback)
    /\ pass_all_checks' = PassAllChecks(slide_feedback)
    /\ IF start_slide_num = -1
       THEN /\ err' = "UnboundLocalError"
            /\ pc' = "error"
            /\ UNCHANGED display
       ELSE /\ display' = [shown |-> TRUE, time_estimate |-> estimate,
                           start_slide_num |-> start_slide_num,
                           slide_feedback |-> slide_feedback',
                           general_feedback |-> general_feedback,
                           pass_all_checks |-> pass_all_checks']
            /\ pc' = "done"
            /\ UNCHANGED err
    /\ UNCHANGED <<prs, prs0, config, run, start_slide_num, general_feedback,
                   ret, estimate, out1>>

\* What a run leaves to its caller: what the renderer was given, or the error.
Output == [display |-> display, err |-> err]

\* The locals of main_controller at its entry.
StartRun(deck) ==
    /\ prs' = deck
    /\ run' = run + 1
    /\ out1' = Output
    /\ pc' = "build"
    /\ err' = ""
    /\ ret' = NoReturns
    /\ estimate' = NoEstimate
    /\ display' = NotShown
    /\ UNCHANGED <<prs0, config, slide_feedback, start_slide_num,
                   general_feedback, pass_all_checks>>

\* main: the files changed their time stamp; the deck is read again from
\* its file, which no rule writes, and main_controller runs on it.
Reload ==
    /\ pc = "done"
    /\ run = 1
    /\ StartRun(prs0)

\* main_controller called once more on the deck object of the first call.
RunAgain ==
    /\ pc \in {"done", "error"}
    /\ run = 1
    /\ StartRun(prs)

Next ==
    \/ Build
    \/ Summary
    \/ Numbers
    \/ Transitions
    \/ Contrast
    \/ ExcessiveText
    \/ Sentences
    \/ Estimate
    \/ Finalize
    \/ Reload
    \/ RunAgain

\* ------------------------------------------------------------ the decks

SlideWidth == 100
SlideHeight == 100

Scheme == [DARK_1 |-> Black, LIGHT_1 |-> White, ACCENT_1 |-> Grey, NONE |-> Black]

NoFill == [type |-> "NONE", color |-> NoColor]
SolidFill(color) == [type |-> "SOLID", color |-> color]
Inherited == [type |-> "NONE"]
SolidBackground == [type |-> "SOLID"]

Run(text, size, color) == [text |-> text, size |-> size, color |-> color]
BlackRun(text) == Run(text, 18, RGBColor(Black))

\* A text box, an auto shape, a connector and a picture.
TextBox(left, top, paragraphs, fill) ==
    [shape_type |-> "TEXT_BOX", auto_shape_type |-> "NONE", left |-> left,
     top |-> top, width |-> 10, height |-> 10, has_text_frame |-> TRUE,
     paragraphs |-> paragraphs, has_fill |-> TRUE, fill |-> fill, line_width |-> 0]

AutoShape(kind, left, top, paragraphs, fill) ==
    [shape_type |-> "AUTO_SHAPE", auto_shape_type |-> kind, left |-> left,
     top |-> top, width |-> 10, height |-> 10, has_text_frame |-> TRUE,
     paragraphs |-> paragraphs, has_fill |-> TRUE, fill |-> fill, line_width |-> 0]

Connector(left, top, line_width, fill) ==
    [shape_type |-> "LINE", auto_shape_type |-> "NONE", left |-> left,
     top |-> top, width |-> 20, height |-> 0, has_text_frame |-> FALSE,
     paragraphs |-> <<>>, has_fill |-> TRUE, fill |-> fill,
     line_width |-> line_width]

Picture(left, top) ==
    [shape_type |-> "PICTURE", auto_shape_type |-> "NONE", left |-> left,
     top |-> top, width |-> 30, height |-> 30, has_text_frame |-> FALSE,
     paragraphs |-> <<>>, has_fill |-> FALSE, fill |-> NoFill, line_width |-> 0]

\* A one-paragraph, one-run text box without fill.
Label(left, top, text) == TextBox(left, top, <<<<BlackRun(text)>>>>, NoFill)

Notes(text, breaks) == [text |-> text, breaks |-> breaks]
NoNotes == Notes(<<>>, 0)
Hello == Notes(<<"Hello", "world.">>, 1)

Slide(title, background, shapes, notes) ==
    [title |-> title, background |-> background, shapes |-> shapes, notes |-> notes]

Deck(slides) ==
    [slide_width |-> SlideWidth, slide_height |-> SlideHeight,
     color_scheme |-> Scheme, slides |-> slides]

DefaultConfig ==
    [shape_pos_threshold |-> 5, shape_min_color_contrast_ratio |-> 30,
     font_min_color_contrast_ratio |-> 45, min_size_font |-> 12,
     min_line_width |-> 1, max_num_words_per_slide |-> 5,
     seconds_per_word |-> 4, seconds_per_pause |-> 10,
     seconds_per_break |-> 20, seconds_between_slides |-> 15]

Sentence == <<"we", "show", "it", "is", "good">>

\* The decks of the runs that exercise the orchestrator.
OrchestratorSlides ==
    { Slide(Title(<<"Agenda">>), Inherited, <<Label(10, 10, <<"Agenda">>)>>, Hello),
      Slide(NoTitle, Inherited,
            <<TextBox(10, 30, <<<<Run(<<"a", "b", "c">>, 18, NoColor)>>>>, NoFill)>>,
            NoNotes),
      Slide(Title(<<"Summary">>), Inherited,
            <<Label(90, 95, <<"<#>">>), Label(10, 30, Sentence)>>, Hello),
      Slide(Title(<<"Backup">>), Inherited, <<>>, NoNotes),
      Slide(Title(<<"Backup", "data">>), Inherited,
            <<TextBox(10, 30, <<<<Run(Sentence, 18, NoColor)>>>>, NoFill)>>, Hello) }

OrchestratorConfigs ==
    { DefaultConfig, [DefaultConfig EXCEPT !.max_num_words_per_slide = 20] }

StartWith(deck, cfg) ==
    /\ prs = deck
    /\ prs0 = deck
    /\ config = cfg
    /\ pc = "build"
    /\ run = 1
    /\ slide_feedback = <<>>
    /\ start_slide_num = -1
    /\ general_feedback = <<>>
    /\ pass_all_checks = TRUE
    /\ ret = NoReturns
    /\ estimate = NoEstimate
    /\ err = ""
    /\ display = NotShown
    /\ out1 = [display |-> NotShown, err |-> ""]

Init ==
    \E slides \in SeqsOf(OrchestratorSlides, 0, MaxSlides) :
        \E cfg \in OrchestratorConfigs : StartWith(Deck(slides), cfg)

Spec == Init /\ [][Next]_vars

\* The decks of the runs that exercise the slide transitions: one text box
\* that stays, jitters, jumps, changes or loses its text, and a second one.
Plain(shapes) == Slide(NoTitle, Inherited, shapes, Hello)

TransitionSlidePool ==
    { Plain(<<Label(10, 10, <<"x">>)>>),
      Plain(<<Label(12, 10, <<"x">>)>>),
      Plain(<<Label(50, 10, <<"x">>)>>),
      Plain(<<Label(10, 10, <<"<#>">>)>>),
      Plain(<<TextBox(10, 10, <<<<>>>>, NoFill)>>),
      Plain(<<Label(50, 10, <<"<#>">>), Label(10, 10, <<"x">>)>>),
      Slide(Title(<<"Backup">>), Inherited, <<Label(50, 50, <<"x">>)>>, Hello) }

InitTransitions ==
    \E slides \in SeqsOf(TransitionSlidePool, 1, MaxSlides) :
        StartWith(Deck(slides), DefaultConfig)

SpecTransitions == InitTransitions /\ [][Next]_vars

\* The decks of the runs that exercise the contrast rule: text and fills
\* on the inherited (white) background, and one slide with a solid one.
LightGrey == <<191, 191, 191>>

ContrastSlidePool ==
    { Plain(<<TextBox(10, 10, <<<<Run(<<"hidden">>, 18, RGBColor(White))>>>>, NoFill)>>),
      Plain(<<AutoShape("OVAL", 10, 10, <<<<BlackRun(<<"oval">>)>>>>,
                        SolidFill(RGBColor(White)))>>),
      Plain(<<AutoShape("OVAL", 10, 10, <<<<BlackRun(<<"pale">>)>>>>,
                        SolidFill(RGBColor(LightGrey)))>>),
      Plain(<<AutoShape("RECTANGLE", 10, 10, <<<<Run(<<"box">>, 5, NoColor)>>>>,
                        SolidFill(SchemeColor("ACCENT_1", 50))),
              Connector(10, 50, 0, SolidFill(RGBColor(Black))),
              Picture(60, 60)>>),
      Slide(NoTitle, SolidBackground,
            <<Label(10, 10, <<"dark">>)>>, Hello),
      Slide(Title(<<"Backup">>), Inherited,
            <<TextBox(10, 10, <<<<Run(<<"late">>, 18, RGBColor(White))>>>>, NoFill)>>,
            Hello) }

ContrastConfigs ==
    { DefaultConfig, [DefaultConfig EXCEPT !.font_min_color_contrast_ratio = 10] }

InitContrast ==
    \E slides \in SeqsOf(ContrastSlidePool, 1, MaxSlides) :
        \E cfg \in ContrastConfigs : StartWith(Deck(slides), cfg)

SpecContrast == InitContrast /\ [][Next]_vars

\* The decks of the runs that exercise the timing estimate: slides with and
\* without speaker notes, backup slides with and without.
NoteSlidePool ==
    { Slide(NoTitle, Inherited, <<>>, NoNotes),
      Slide(NoTitle, Inherited, <<>>, Hello),
      Slide(Title(<<"Backup">>), Inherited, <<>>, Hello),
      Slide(Title(<<"Backup">>), Inherited, <<>>, NoNotes) }

InitTiming ==
    \E slides \in SeqsOf(NoteSlidePool, 1, MaxNoteSlides) :
        StartWith(Deck(slides), DefaultConfig)

SpecTiming == InitTiming /\ [][Next]_vars

\* The decks of the runs that exercise the slide numbers: a number at the
\* bottom right, bottom left, the top left corner and mid-height, a circled
\* three, and a slide without number.
NumberSlidePool ==
    { Plain(<<Label(90, 95, <<"<#>">>)>>),
      Plain(<<Label(10, 95, <<"<#>">>)>>),
      Plain(<<Label(0, 0, <<"<#>">>)>>),
      Plain(<<Label(90, 50, <<"<#>">>)>>),
      Plain(<<Label(90, 95, <<"(3)">>)>>),
      Plain(<<Label(10, 10, <<"x">>)>>) }

InitNumbers ==
    \E slides \in SeqsOf(NumberSlidePool, 1, MaxSlides) :
        StartWith(Deck(slides), DefaultConfig)

SpecNumbers == InitNumbers /\ [][Next]_vars

\* The decks of the runs that exercise the word count: runs of three, five
\* and six words, two runs of three, a label of two words, and a slide whose
\* only long run is its title.
LongTitle == <<"we", "like", "long", "titles", "a", "lot">>

TextSlidePool ==
    { Plain(<<Label(10, 30, <<"a", "b", "c">>)>>),
      Plain(<<Label(10, 30, Sentence)>>),
      Plain(<<Label(10, 30, <<"a", "b", "c", "d", "e", "f">>)>>),
      Plain(<<TextBox(10, 30, <<<<BlackRun(<<"a", "b", "c">>)>>,
                                <<BlackRun(<<"d", "e", "f">>)>>>>, NoFill)>>),
      Plain(<<Label(10, 30, <<"a", "b">>)>>),
      Slide(Title(LongTitle), Inherited,
            <<Label(10, 10, LongTitle), Label(10, 30, <<"a", "b">>)>>, Hello) }

TextConfigs ==
    { DefaultConfig, [DefaultConfig EXCEPT !.max_num_words_per_slide = 3] }

InitText ==
    \E slides \in SeqsOf(TextSlidePool, 1, MaxSlides) :
        \E cfg \in TextConfigs : StartWith(Deck(slides), cfg)

SpecText == InitText /\ [][Next]_vars

\* The decks of the runs that exercise the summary rule: slides titled
\* "Agenda", "Summary", "Backup" and "Backup summary", and one without title.
TitleOnly(title) == Slide(title, Inherited, <<>>, Hello)

SummarySlidePool ==
    { TitleOnly(NoTitle),
      TitleOnly(Title(<<"Agenda">>)),
      TitleOnly(Title(<<"Summary">>)),
      TitleOnly(Title(<<"Backup">>)),
      TitleOnly(Title(<<"Backup", "summary">>)) }

InitSummary ==
    \E slides \in SeqsOf(SummarySlidePool, 1, MaxSlides) :
        StartWith(Deck(slides), DefaultConfig)

SpecSummary == InitSummary /\ [][Next]_vars

\* ----------------------------------------------------------------- claims

\* Index (1-based) of the first backup slide, NumSlides + 1 when none.
RECURSIVE FirstBackupFrom(_, _)
FirstBackupFrom(p, i) ==
    IF i > NumSlides(p) THEN i
    ELSE IF is_backup_slide(p.slides[i]) THEN i
    ELSE FirstBackupFrom(p, i + 1)

FirstBackup(p) == FirstBackupFrom(p, 1)

\* The in-scope slides: those before the first backup slide.
InScope(p) == FirstBackup(p) - 1

HasBackup(p) == FirstBackup(p) <= NumSlides(p)

Finished == pc \in {"done", "error"}

\* Lines of a feedback entry that a given rule wrote.
LinesOf(entry, rule) == SelectSeq(entry, LAMBDA l : l.rule = rule)

\* C1: once the feedback list is built it holds one entry per in-scope slide
\* (the slides before the first backup slide, all slides when there is
\* none), through every rule call and in what the renderer is given.
C1_OneEntryPerInScopeSlide ==
    /\ pc # "build" => Len(slide_feedback) = InScope(prs0)
    /\ display.shown => Len(display.slide_feedback) = InScope(prs0)

\* A run that ended on a deck with in-scope slides, a backup slide and findings.
C1_Witness ==
    /\ pc = "done"
    /\ HasBackup(prs0)
    /\ InScope(prs0) >= 2
    /\ \E i \in 1..Len(slide_feedback) : slide_feedback[i] # <<>>

\* C2: the pass flag given to the renderer is false whenever one of the five
\* boolean rules returned false.
C2_PassFlagIsConjunction ==
    display.shown /\ display.pass_all_checks =>
        ret.summary /\ ret.numbers /\ ret.transitions /\ ret.contrast /\ ret.text

\* C3: on a deck with a backup slide no rule writes feedback outside the
\* in-scope slides, so no run ends in an out-of-range access.
C3_NoWriteBeyondBoundary == HasBackup(prs0) => err # "IndexError"

\* C4: a run never changes the deck.
C4_DeckNeverMutated == prs = prs0

\* C5: a second run on the same deck and configuration ends with the output
\* of the first: the same feedback, general feedback, pass flag and times,
\* or the same error.
C5_SecondRunSameOutput == run = 2 /\ Finished => Output = out1

\* A second run on the deck object the first run left, with findings shown.
C5_Witness ==
    /\ run = 2
    /\ pc = "done"
    /\ prs # prs0
    /\ ~display.pass_all_checks
    /\ ~display.time_estimate.none

\* The rule has returned in the current run (and the run went on).
RanPast(rule) ==
    CASE rule = "numbers" ->
           pc \in {"transitions", "contrast", "text", "sentences", "estimate",
                   "finalize", "done"}
      [] rule = "transitions" ->
           pc \in {"contrast", "text", "sentences", "estimate", "finalize", "done"}
      [] rule = "contrast" ->
           pc \in {"text", "sentences", "estimate", "finalize", "done"}
      [] rule = "summary" ->
           pc \in {"numbers", "transitions", "contrast", "text", "sentences",
                   "estimate", "finalize", "done"}
      [] rule = "text" -> pc \in {"sentences", "estimate", "finalize", "done"}
      [] rule = "estimate" -> pc \in {"finalize", "done"}
      [] OTHER -> FALSE

\* The fingerprints of slide i of the deck.
Keys(i) == Fingerprints(prs0.slides[i].shapes, <<>>)

EntriesOf(d) == {d[n] : n \in 1..Len(d)}

\* The shapes of slide k - 1 found again on slide k at another position.
MovedShapes(k) ==
    IF k < 2 THEN {}
    ELSE {e \in EntriesOf(Keys(k - 1)) :
            HasKey(Keys(k), e.key) /\ Lookup(Keys(k), e.key).pos # e.pos}

\* The shapes of slide k - 1 found again on slide k with the same attribute
\* list and moved beyond the tolerance.
JumpedShapes(k) ==
    {e \in MovedShapes(k) :
        /\ Lookup(Keys(k), e.key).attr = e.attr
        /\ within_bounds(e.pos, Lookup(Keys(k), e.key).pos,
                         config.shape_pos_threshold, SlideWidth, SlideHeight)}

TransitionLines(k) == Len(LinesOf(slide_feedback[k], "transition"))

\* C6: a shape found again on the next slide at the identical (left, top)
\* produces no transition finding and does not make the rule return false,
\* whatever its attribute lists: a slide has at most as many findings as
\* shapes that changed position, and the rule returns false only when some
\* shape changed position.
C6_SamePositionNoFinding ==
    RanPast("transitions") =>
        /\ \A k \in 1..Len(slide_feedback) :
               TransitionLines(k) <= Cardinality(MovedShapes(k))
        /\ ~ret.transitions =>
               \E k \in 1..Len(slide_feedback) : MovedShapes(k) # {}

\* A shape at the same position on two in-scope slides, with and without text.
C6_Witness ==
    /\ RanPast("transitions")
    /\ \E k \in 2..Len(slide_feedback) :
           \E e \in EntriesOf(Keys(k - 1)) :
               /\ HasKey(Keys(k), e.key)
               /\ Lookup(Keys(k), e.key).pos = e.pos
               /\ Lookup(Keys(k), e.key).attr # e.attr

AllInherited(p) == \A i \in 1..NumSlides(p) : p.slides[i].background.type # "SOLID"

\* The shapes of slide i whose colours the contrast rule looks at.
CheckedShapes(i) ==
    {j \in 1..Len(prs0.slides[i].shapes) :
        /\ prs0.slides[i].shapes[j].shape_type \notin {"PICTURE", "CHART", "TABLE"}
        /\ prs0.slides[i].shapes[j].has_fill}

\* The contrast of the fill of shape j of slide i with a white background.
FillRatio(i, j) ==
    calculate_contrast_ratio(White,
        ResolveColor(Scheme, prs0.slides[i].shapes[j].fill.color))

\* The contrast of a run of shape j of slide i with what lies behind it.
FontRatio(i, j, rn) ==
    LET shape == prs0.slides[i].shapes[j]
        behind == IF shape.fill.type = "SOLID"
                  THEN ResolveColor(Scheme, shape.fill.color) ELSE White
        colour == IF rn.color.type = "NONE" THEN Scheme["DARK_1"]
                  ELSE ResolveColor(Scheme, rn.color)
    IN  calculate_contrast_ratio(behind, colour)

\* The finding is about a run of slide i whose contrast ratio is not 1.
AboutVisibleRun(i, line) ==
    \E j \in CheckedShapes(i) :
        \E n \in 1..Len(ShapeRuns(prs0.slides[i].shapes[j])) :
            LET rn == ShapeRuns(prs0.slides[i].shapes[j])[n]
            IN  rn.text = line.text /\ ~RatioIsOne(FontRatio(i, j, rn))

\* C8: a contrast ratio of exactly 1 gives no contrast finding and does not
\* make the rule return false: a slide has no more fill findings than
\* solid fills whose ratio with the background is not 1, every font
\* finding is about a run whose ratio is not 1, and the rule returns
\* false only with a finding of either kind or one about a size.
C8_RatioOneNeverAFinding ==
    RanPast("contrast") /\ AllInherited(prs0) =>
        /\ \A i \in 1..Len(slide_feedback) :
               /\ Len(LinesOf(slide_feedback[i], "shape colour")) <=
                      Cardinality({j \in CheckedShapes(i) :
                          /\ prs0.slides[i].shapes[j].fill.type = "SOLID"
                          /\ ~RatioIsOne(FillRatio(i, j))})
               /\ \A n \in 1..Len(LinesOf(slide_feedback[i], "font colour")) :
                      AboutVisibleRun(i, LinesOf(slide_feedback[i], "font colour")[n])
        /\ ~ret.contrast =>
               \E i \in 1..Len(slide_feedback) :
                   \E n \in 1..Len(slide_feedback[i]) :
                       LET line == slide_feedback[i][n]
                       IN  \/ line.rule \in {"shape colour", "font size", "line width"}
                           \/ line.rule = "font colour" /\ AboutVisibleRun(i, line)

\* Slides of the deck, among the first n, that have no speaker notes.
WithoutNotes(p, n) ==
    Cardinality({i \in 1..n : get_slide_notes(p.slides[i]).text = <<>>})

\* The last slide the estimate reads: the first backup slide, or the last.
LastRead(p) == IF HasBackup(p) THEN FirstBackup(p) ELSE NumSlides(p)

EstimateShape ==
    ~estimate.none =>
        /\ Len(estimate.slide_times) = InScope(prs0)
        /\ Len(estimate.cumul_slide_times) = InScope(prs0)

\* C9 as stated: no estimate exactly when more than two slides of the deck
\* have no notes, wherever they are; otherwise a total and one duration and
\* one start time per in-scope slide.
C9_NoneIffMoreThanTwoInDeck ==
    RanPast("estimate") =>
        /\ estimate.none = (WithoutNotes(prs0, NumSlides(prs0)) > 2)
        /\ EstimateShape

\* C9 amended: no estimate exactly when more than two of the slides up to
\* and including the first backup slide have no notes; otherwise a total
\* and one duration and one start time per in-scope slide.
C9_NoneIffMoreThanTwoRead ==
    RanPast("estimate") =>
        /\ estimate.none = (WithoutNotes(prs0, LastRead(prs0)) > 2)
        /\ EstimateShape

\* An estimate made although three slides have no notes, one beyond the
\* backup slide.
C9_Witness ==
    /\ RanPast("estimate")
    /\ ~estimate.none
    /\ HasBackup(prs0)
    /\ InScope(prs0) >= 1
    /\ WithoutNotes(prs0, NumSlides(prs0)) > 2

\* The shapes of slide k that read as its number and lie in the band.
NumberShapesOf(k) ==
    {j \in 1..Len(prs0.slides[k].shapes) :
        LET shape == prs0.slides[k].shapes[j]
        IN  /\ shape.has_text_frame
            /\ Len(shape.paragraphs) = 1
            /\ IsSlideNumberText(ShapeText(shape), k)
            /\ InNumberBand(shape.top, SlideHeight)}

\* Slides 2..N each carry one correct number in the band; no backup slide.
Numbered(p) ==
    /\ NumSlides(p) >= 2
    /\ ~HasBackup(p)
    /\ \A k \in 2..NumSlides(p) : Cardinality(NumberShapesOf(k)) = 1

NumberPos(k) ==
    LET shape == prs0.slides[k].shapes[CHOOSE j \in NumberShapesOf(k) : TRUE]
    IN  <<shape.left, shape.top>>

NumberLines(k, what) ==
    Len(SelectSeq(LinesOf(slide_feedback[k], "numbers"), LAMBDA l : l.what = what))

\* C10: on a deck whose slides 2..N each carry a correct number in the band
\* the rule returns true, a slide is found misplaced exactly when its number
\* is not where the number of the first numbered slide is, and no slide is
\* found missing its number.
C10_MisplacedIffElsewhere ==
    RanPast("numbers") /\ Numbered(prs0) =>
        /\ ret.numbers
        /\ NumberLines(1, "misplaced") = 0
        /\ \A k \in 2..NumSlides(prs0) :
               NumberLines(k, "misplaced") =
                   (IF NumberPos(k) # NumberPos(2) THEN 1 ELSE 0)
        /\ \A k \in 1..NumSlides(prs0) : NumberLines(k, "missing") = 0

\* The words of the counted runs of a slide: the runs of more than two
\* words whose trimmed text is not the title.
CountedWords(slide) ==
    LET runs == TextRuns(slide.shapes)
        counted(rn) ==
            /\ Len(SplitSpace(rn.text)) > 2
            /\ ~(HasTitle(slide) /\ Strip(rn.text) = Strip(slide.title.text))
    IN  SumSeq([n \in 1..Len(runs) |->
                   IF counted(runs[n]) THEN Len(SplitSpace(Strip(runs[n].text)))
                   ELSE 0])

ExcessiveLines(k) == Len(LinesOf(slide_feedback[k], "excessive text"))

\* C11: a slide gets the excessive-words finding exactly when the words of
\* its counted runs are more than max_num_words_per_slide, and the rule
\* returns false exactly when some slide does; a slide with exactly the
\* maximum, or with no counted text, is not flagged.
C11_FlaggedIffOverMaximum ==
    RanPast("text") =>
        /\ \A k \in 1..Len(slide_feedback) :
               ExcessiveLines(k) =
                   (IF CountedWords(prs0.slides[k]) > config.max_num_words_per_slide
                    THEN 1 ELSE 0)
        /\ ret.text =
               (\A k \in 1..NumSlides(prs0) :
                    CountedWords(prs0.slides[k]) <= config.max_num_words_per_slide)

\* Some slide among 2..k carries a correct number whose own top is in the band.
NumberSeenBy(k) == \E n \in 2..k : NumberShapesOf(n) # {}

\* C12: a shape counts as a slide's number only when its own top lies in
\* the top or bottom tenth of the slide height, whatever the earlier slides
\* carried: the rule returns true exactly when some slide after the first
\* has a correct number in a band, and a slide is found missing its number
\* exactly when it has none in a band and an earlier slide had one.
C12_AcceptedIffOwnTopInBand ==
    RanPast("numbers") /\ NumSlides(prs0) >= 2 /\ ~HasBackup(prs0) =>
        /\ ret.numbers = NumberSeenBy(NumSlides(prs0))
        /\ \A k \in 2..NumSlides(prs0) :
               NumberLines(k, "missing") =
                   (IF NumberSeenBy(k) /\ NumberShapesOf(k) = {} THEN 1 ELSE 0)

\* Slide k has a title that contains "summary"; a title that contains
\* "backup" and not "summary".
SummaryTitle(k) ==
    HasTitle(prs0.slides[k]) /\ Contains(Lower(prs0.slides[k].title.text), "summary")

BoundaryTitle(k) ==
    /\ HasTitle(prs0.slides[k])
    /\ Contains(Lower(prs0.slides[k].title.text), "backup")
    /\ ~SummaryTitle(k)

\* The slides scanned: those before the first boundary title.
Scanned ==
    {k \in 1..NumSlides(prs0) : \A n \in 1..k : ~BoundaryTitle(n)}

\* C13: the summary rule returns true exactly when, among the slides before
\* the first title with "backup" and without "summary", some title contains
\* "summary" and every titled slide after the first such title contains it
\* too; untitled slides change nothing.
C13_SummaryIffLastTitles ==
    RanPast("summary") =>
        ret.summary =
            (\E f \in Scanned :
                /\ SummaryTitle(f)
                /\ \A n \in 1..(f - 1) : ~SummaryTitle(n)
                /\ \A k \in Scanned :
                       k > f /\ HasTitle(prs0.slides[k]) => SummaryTitle(k))

\* The rule returned true on a deck whose summary is followed by an
\* untitled slide, a boundary title and nothing else, and on one where a
\* title after the boundary is no summary.
C13_Witness ==
    /\ RanPast("summary")
    /\ ret.summary
    /\ NumSlides(prs0) = 3
    /\ SummaryTitle(1)
    /\ \/ ~HasTitle(prs0.slides[2]) /\ BoundaryTitle(3)
       \/ BoundaryTitle(2) /\ HasTitle(prs0.slides[3]) /\ ~SummaryTitle(3)

\* The time cost of slide k as the sum of its breaks, its terminal marks and
\* its words, a slide of empty notes having no word.
TimeCost(k) ==
    LET notes == get_slide_notes(prs0.slides[k])
        words == IF notes.text = <<>> THEN 0
                 ELSE Len(SplitSpace(Strip(WithoutPunct(notes.text))))
    IN  notes.breaks * config.seconds_per_break
          + PunctPauses(notes.text) * config.seconds_per_pause
          + words * config.seconds_per_word

\* The time costs of slides 1..k and one gap per transition between them.
TimeThrough(k) ==
    IF k = 0 THEN 0
    ELSE SumSeq([i \in 1..k |-> TimeCost(i)]) + (k - 1) * config.seconds_between_slides

\* C14: when an estimate is made, the duration of each in-scope slide is
\* its time cost, the start time of slide k is the cost of slides 1..k-1
\* plus one gap per transition between them and that before slide k, and the
\* total is the cost of all N in-scope slides plus N - 1 gaps.
C14_TotalHasOneGapPerTransition ==
    RanPast("estimate") /\ ~estimate.none =>
        /\ \A k \in 1..Len(estimate.slide_times) :
               estimate.slide_times[k] = FormatMS(TimeCost(k))
        /\ \A k \in 1..Len(estimate.cumul_slide_times) :
               estimate.cumul_slide_times[k] =
                   FormatHMS(IF k = 1 THEN 0
                             ELSE TimeThrough(k - 1) + config.seconds_between_slides)
        /\ estimate.total = FormatHMS(TimeThrough(InScope(prs0)))

====
